---- MODULE Spec2Model ----
(***************************************************************************)
(* A model of internal/proto6server/serve.go: the PlanResourceChange RPC   *)
(* (planResourceChange, markComputedNilsAsUnknown) and the normalisation   *)
(* of the RequiresReplace list (normaliseRequiresReplace).                 *)
(***************************************************************************)
EXTENDS Integers, Sequences, FiniteSets, TLC

VARIABLES
    schema,       \* resourceSchema: attribute name -> Attribute
    req,          \* the tfprotov6.PlanResourceChangeRequest (wire values)
    attrMods,     \* what the schema's attribute plan modifiers do in one pass
    resource,     \* the resource instance: ModifyPlan capability and behaviour
    pc,           \* position inside PlanResourceChange / planResourceChange
    config,       \* local: config  (tftypes.Value)
    plan,         \* local: plan    (tftypes.Value)
    state,        \* local: state   (tftypes.Value)
    modifyPlanResp, \* local: modifyPlanResp.RequiresReplace
    resp,         \* the planResourceChangeResponse
    trace,        \* history: the resource creation and the passes that
                  \* have run, in order
    rs,           \* normaliseRequiresReplace: the argument slice
    ret,          \* normaliseRequiresReplace: the returned slice
    npc,          \* normaliseRequiresReplace: "call" or "returned"
    first,        \* history: argument and result of the first call, once
                  \* the function is called a second time
    contextCancels,   \* Server.contextCancels: the registered cancel funcs
    contextCancelsMu, \* Server.contextCancelsMu: "" or the goroutine holding it
    cancelCalls,  \* history: how many times each cancel func was invoked
    rpc,          \* position of every other RPC goroutine
    call,         \* schema functions: the call made (operation and arguments)
    got           \* schema functions: what the call returned

reqVars  == <<schema, req, attrMods, resource, pc, config, plan, state,
              modifyPlanResp, resp, trace>>
normVars == <<rs, ret, npc, first>>
regVars  == <<contextCancels, contextCancelsMu, cancelCalls, rpc>>
fnVars   == <<call, got>>
vars     == <<schema, req, attrMods, resource, pc, config, plan, state,
              modifyPlanResp, resp, trace, rs, ret, npc, first,
              contextCancels, contextCancelsMu, cancelCalls, rpc, call, got>>

(***************************************************************************)
(* Bounds of the model.                                                    *)
(***************************************************************************)
MaxLen      == 3   \* longest path list handed to normaliseRequiresReplace
MaxAppend   == 2   \* most paths one modification pass appends
MaxWarnings == 1   \* most warnings the framework lookups add to one response

(***************************************************************************)
(* tftypes.AttributePath: a sequence of steps.  Only the step kinds that   *)
(* address the modelled schemas are built: AttributeName and ElementKeyInt.*)
(***************************************************************************)
AttributeName(n) == [kind |-> "AttributeName", name |-> n, idx |-> 0]
ElementKeyInt(i) == [kind |-> "ElementKeyInt", name |-> "", idx |-> i]

\* The characters of the attribute names used, for rendering.
NameChars ==
    [id   |-> <<"i", "d">>,
     name |-> <<"n", "a", "m", "e">>,
     tags |-> <<"t", "a", "g", "s">>,
     obj  |-> <<"o", "b", "j">>,
     c    |-> <<"c">>]

\* Byte values of the characters a rendered path is made of.
Ascii ==
    ("\"" :> 34) @@ ("(" :> 40) @@ (")" :> 41) @@ ("." :> 46) @@ ("0" :> 48)
    @@ ("1" :> 49) @@ ("2" :> 50) @@ ("3" :> 51) @@ ("4" :> 52) @@ ("5" :> 53)
    @@ ("6" :> 54) @@ ("7" :> 55) @@ ("8" :> 56) @@ ("9" :> 57) @@ ("A" :> 65)
    @@ ("E" :> 69) @@ ("I" :> 73) @@ ("K" :> 75) @@ ("N" :> 78) @@ ("a" :> 97)
    @@ ("b" :> 98) @@ ("c" :> 99) @@ ("d" :> 100) @@ ("e" :> 101)
    @@ ("g" :> 103) @@ ("i" :> 105) @@ ("j" :> 106) @@ ("l" :> 108)
    @@ ("m" :> 109) @@ ("n" :> 110) @@ ("o" :> 111) @@ ("r" :> 114)
    @@ ("s" :> 115) @@ ("t" :> 116) @@ ("u" :> 117) @@ ("y" :> 121)

Digits == <<"0", "1", "2", "3", "4", "5", "6", "7", "8", "9">>

\* strconv.FormatInt(i, 10) for i >= 0, as characters.
RECURSIVE FormatInt(_)
FormatInt(i) ==
    IF i < 10 THEN <<Digits[i + 1]>>
    ELSE FormatInt(i \div 10) \o <<Digits[(i % 10) + 1]>>

\* One step as (*AttributePath).String() writes it.
StepChars(step) ==
    IF step.kind = "AttributeName"
    THEN <<"A", "t", "t", "r", "i", "b", "u", "t", "e", "N", "a", "m", "e",
           "(", "\"">> \o NameChars[step.name] \o <<"\"", ")">>
    ELSE <<"E", "l", "e", "m", "e", "n", "t", "K", "e", "y", "I", "n", "t",
           "(">> \o FormatInt(step.idx) \o <<")">>

\* (*AttributePath).String(): the steps joined by ".", as characters.
RECURSIVE PathChars(_)
PathChars(path) ==
    IF path = <<>> THEN <<>>
    ELSE IF Len(path) = 1 THEN StepChars(path[1])
    ELSE StepChars(path[1]) \o <<".">> \o PathChars(Tail(path))

\* The rendering as the bytes Go's string comparison reads.
String(path) == [i \in 1..Len(PathChars(path)) |-> Ascii[PathChars(path)[i]]]

\* Go's s < t on strings: bytewise lexicographic, a proper prefix is smaller.
RECURSIVE StrLess(_, _)
StrLess(s, t) ==
    IF t = <<>> THEN FALSE
    ELSE IF s = <<>> THEN TRUE
    ELSE IF s[1] # t[1] THEN s[1] < t[1]
    ELSE StrLess(Tail(s), Tail(t))

\* (*AttributePath).Equal: the same steps in the same order.
PathEqual(p, q) == p = q

(***************************************************************************)
(* normaliseRequiresReplace                                                *)
(***************************************************************************)
\* The comparison handed to sort.Slice.
Less(p, q) == StrLess(String(p), String(q))

\* The sort left out: the slice keeps the order it came in.
SortSliceKeepingOrder(s) == {s}

\* sort.Slice is not stable: it may leave any permutation of the slice in
\* which no element is Less than one before it.
SortSlice(s) ==
    {t \in {[i \in 1..Len(s) |-> s[f[i]]] : f \in Permutations(1..Len(s))} :
        \A i \in 1..Len(t) : \A j \in 1..Len(t) : i < j => ~Less(t[j], t[i])}

\* The deduplication loop over the sorted slice, from index i (1-based),
\* acc being ret[:j].
RECURSIVE DedupFrom(_, _, _)
DedupFrom(sorted, i, acc) ==
    IF i > Len(sorted) THEN acc
    ELSE IF PathEqual(sorted[i], acc[Len(acc)])
         THEN DedupFrom(sorted, i + 1, acc)
         ELSE DedupFrom(sorted, i + 1, Append(acc, sorted[i]))

\* The loop with the Equal test dropped: every entry is kept.
DedupKeepAll(sorted) == sorted
\* The loop as it would be if ret did not start with the first entry.
DedupDroppingFirst(sorted) == Tail(sorted)
Dedup(sorted) == DedupFrom(sorted, 2, <<sorted[1]>>)

\* The set of slices normaliseRequiresReplace may return for the argument.
normaliseRequiresReplace(in) ==
    IF Len(in) < 2 THEN {in}
    ELSE {Dedup(sorted) : sorted \in SortSlice(in)}

\* The paths plan modifiers ask replacement for.
RRPaths ==
    {<<AttributeName("id")>>, <<AttributeName("name")>>,
     <<AttributeName("tags")>>, <<AttributeName("tags"), ElementKeyInt(0)>>}

RECURSIVE SeqsUpTo(_, _)
SeqsUpTo(S, n) ==
    IF n = 0 THEN {<<>>}
    ELSE SeqsUpTo(S, n - 1)
         \cup {Append(s, x) : s \in {q \in SeqsUpTo(S, n - 1) : Len(q) = n - 1},
                               x \in S}

(***************************************************************************)
(* tftypes.Value: a type, one of known / null / unknown, and a payload.    *)
(***************************************************************************)
EmptyPayload(t) == IF t = "String" THEN "" ELSE <<>>

StringValue(s)     == [t |-> "String", k |-> "known", v |-> s]
ListValue(elems)   == [t |-> "List",   k |-> "known", v |-> elems]
ObjectValue(attrs) == [t |-> "Object", k |-> "known", v |-> attrs]
NullValue(t)       == [t |-> t, k |-> "null", v |-> EmptyPayload(t)]
\* tftypes.NewValue(typ, tftypes.UnknownValue)
UnknownValue(t)    == [t |-> t, k |-> "unknown", v |-> EmptyPayload(t)]
\* The zero tftypes.Value{} / a nil interface result.
NilValue           == [t |-> "", k |-> "nil", v |-> <<>>]

IsNull(val)       == val.k = "null"
ValueEqual(a, b)  == a = b

\* (Value).ApplyTerraform5AttributePathStep: one step into a value.
ValueApplyStep(val, step) ==
    IF val.k # "known" THEN [err |-> "ErrInvalidStep", val |-> NilValue]
    ELSE IF val.t = "Object" /\ step.kind = "AttributeName"
            /\ step.name \in DOMAIN val.v
         THEN [err |-> "", val |-> val.v[step.name]]
    ELSE IF val.t = "List" /\ step.kind = "ElementKeyInt"
            /\ step.idx + 1 \in 1..Len(val.v)
         THEN [err |-> "", val |-> val.v[step.idx + 1]]
    ELSE [err |-> "ErrInvalidStep", val |-> NilValue]

\* tftypes.WalkAttributePath(config, path): the value at the path, or
\* ErrInvalidStep when a step cannot be applied.
RECURSIVE WalkAttributePath(_, _)
WalkAttributePath(val, path) ==
    IF path = <<>> THEN [err |-> "", val |-> val]
    ELSE LET next == ValueApplyStep(val, path[1])
         IN  IF next.err # "" THEN next
             ELSE WalkAttributePath(next.val, Tail(path))

(***************************************************************************)
(* tfsdk.Schema and tfsdk.Attribute.                                       *)
(***************************************************************************)
Attribute(kind, computed, optional, children) ==
    [Kind |-> kind, Computed |-> computed, Optional |-> optional,
     Attributes |-> children]

NoAttribute == Attribute("", FALSE, FALSE, <<>>)

\* One step of the schema walk.  A node is the schema itself, an attribute,
\* or the element type of a list attribute.
SchemaApplyStep(node, step) ==
    IF node.node = "schema"
    THEN IF step.kind = "AttributeName" /\ step.name \in DOMAIN node.attrs
         THEN [err |-> "", node |-> "attribute", attrs |-> <<>>,
               attribute |-> node.attrs[step.name]]
         ELSE [err |-> "step", node |-> "", attrs |-> <<>>,
               attribute |-> NoAttribute]
    ELSE IF node.node = "attribute"
            /\ node.attribute.Kind \in {"SingleNested", "Block"}
    THEN IF step.kind = "AttributeName"
            /\ step.name \in DOMAIN node.attribute.Attributes
         THEN [err |-> "", node |-> "attribute", attrs |-> <<>>,
               attribute |-> node.attribute.Attributes[step.name]]
         ELSE [err |-> "step", node |-> "", attrs |-> <<>>,
               attribute |-> NoAttribute]
    ELSE IF node.node = "attribute" /\ node.attribute.Kind = "ListOfString"
            /\ step.kind = "ElementKeyInt"
    THEN [err |-> "", node |-> "type", attrs |-> <<>>,
          attribute |-> NoAttribute]
    ELSE [err |-> "step", node |-> "", attrs |-> <<>>,
          attribute |-> NoAttribute]

RECURSIVE SchemaWalk(_, _)
SchemaWalk(node, path) ==
    IF path = <<>> THEN node
    ELSE LET next == SchemaApplyStep(node, path[1])
         IN  IF next.err # "" THEN next ELSE SchemaWalk(next, Tail(path))

\* (tfsdk.Schema).AttributeAtPath: the attribute a path resolves to;
\* ErrPathInsideAtomicAttribute when the path ends inside an attribute that
\* has no schema of its own; another error when the path does not fit the
\* schema or ends at a nested block, which is not an attribute.
AttributeAtPath(sch, path) ==
    LET res == SchemaWalk([err |-> "", node |-> "schema", attrs |-> sch,
                           attribute |-> NoAttribute], path)
    IN  IF res.err # "" \/ res.node = "schema"
        THEN [err |-> "ErrPathNotInSchema", attribute |-> NoAttribute]
        ELSE IF res.node = "attribute" /\ res.attribute.Kind = "Block"
        THEN [err |-> "ErrUnexpectedType", attribute |-> NoAttribute]
        ELSE IF res.node = "type"
        THEN [err |-> "ErrPathInsideAtomicAttribute", attribute |-> NoAttribute]
        ELSE [err |-> "", attribute |-> res.attribute]

(***************************************************************************)
(* markComputedNilsAsUnknown and tftypes.Transform                         *)
(***************************************************************************)
\* The callback as it would be if only null plan values were marked:
\* a known plan value of a computed attribute is kept.
markOnlyNullPlanValues(cfg, sch, path, val) ==
    IF Len(path) < 1 THEN [val |-> val, err |-> FALSE]
    ELSE
    LET walked == WalkAttributePath(cfg, path)
        found  == AttributeAtPath(sch, path)
    IN  IF walked.err = "" /\ ~IsNull(walked.val)
        THEN [val |-> val, err |-> FALSE]
        ELSE IF found.err = "" /\ found.attribute.Computed /\ IsNull(val)
        THEN [val |-> UnknownValue(val.t), err |-> FALSE]
        ELSE [val |-> val, err |-> found.err = "ErrPathNotInSchema"]

\* The callback as it would be if a failed config lookup ended it: the
\* value is returned unchanged without asking the schema.
markSkippingFailedLookup(cfg, sch, path, val) ==
    IF Len(path) < 1 THEN [val |-> val, err |-> FALSE]
    ELSE
    LET walked == WalkAttributePath(cfg, path)
        found  == AttributeAtPath(sch, path)
    IN  IF walked.err # "" \/ ~IsNull(walked.val)
        THEN [val |-> val, err |-> FALSE]
        ELSE IF found.err = "" /\ found.attribute.Computed
        THEN [val |-> UnknownValue(val.t), err |-> FALSE]
        ELSE [val |-> val, err |-> found.err = "ErrPathNotInSchema"]

\* The callback as it would be without the test of the config value:
\* every computed attribute is marked.
markIgnoringConfig(cfg, sch, path, val) ==
    IF Len(path) < 1 THEN [val |-> val, err |-> FALSE]
    ELSE
    LET found == AttributeAtPath(sch, path)
    IN  IF found.err = "" /\ found.attribute.Computed
        THEN [val |-> UnknownValue(val.t), err |-> FALSE]
        ELSE [val |-> val, err |-> found.err = "ErrPathNotInSchema"]

\* The callback as it would be if every failure to resolve the attribute
\* were ignored like ErrPathInsideAtomicAttribute.
markIgnoringSchemaErrors(cfg, sch, path, val) ==
    IF Len(path) < 1 THEN [val |-> val, err |-> FALSE]
    ELSE
    LET walked == WalkAttributePath(cfg, path)
        found  == AttributeAtPath(sch, path)
    IN  IF walked.err = "" /\ ~IsNull(walked.val)
        THEN [val |-> val, err |-> FALSE]
        ELSE IF found.err = "" /\ found.attribute.Computed
        THEN [val |-> UnknownValue(val.t), err |-> FALSE]
        ELSE [val |-> val, err |-> FALSE]

\* The callback as it would be without the test of the Computed flag:
\* every attribute whose config value is null is marked.
markIgnoringComputed(cfg, sch, path, val) ==
    IF Len(path) < 1 THEN [val |-> val, err |-> FALSE]
    ELSE
    LET walked == WalkAttributePath(cfg, path)
        found  == AttributeAtPath(sch, path)
    IN  IF walked.err = "" /\ ~IsNull(walked.val)
        THEN [val |-> val, err |-> FALSE]
        ELSE IF found.err # ""
        THEN [val |-> val, err |-> found.err # "ErrPathInsideAtomicAttribute"]
        ELSE [val |-> UnknownValue(val.t), err |-> FALSE]

\* The callback markComputedNilsAsUnknown(ctx, config, resourceSchema)
\* returns, applied to (path, val).
markComputedNilsAsUnknown(cfg, sch, path, val) ==
    IF Len(path) < 1 THEN [val |-> val, err |-> FALSE]
    ELSE
    LET walked == WalkAttributePath(cfg, path) IN
    IF walked.err # "ErrInvalidStep" /\ walked.err # ""
    THEN [val |-> val, err |-> TRUE]
    ELSE IF walked.err # "ErrInvalidStep" /\ ~IsNull(walked.val)
    THEN [val |-> val, err |-> FALSE]
    ELSE
    LET found == AttributeAtPath(sch, path) IN
    IF found.err # ""
    THEN IF found.err = "ErrPathInsideAtomicAttribute"
         THEN [val |-> val, err |-> FALSE]
         ELSE [val |-> NilValue, err |-> TRUE]
    ELSE IF ~found.attribute.Computed
    THEN [val |-> val, err |-> FALSE]
    ELSE [val |-> UnknownValue(val.t), err |-> FALSE]

\* tftypes.Transform(plan, callback): the children of a known list or
\* object first, then the value itself; the first error ends the walk.
RECURSIVE transform(_, _, _, _)
transform(cfg, sch, path, val) ==
    IF val.k = "known" /\ val.t = "List"
    THEN LET kids == [i \in 1..Len(val.v) |->
                        transform(cfg, sch, Append(path, ElementKeyInt(i - 1)),
                                  val.v[i])]
         IN  IF \E i \in 1..Len(val.v) : kids[i].err
             THEN [val |-> NilValue, err |-> TRUE]
             ELSE markComputedNilsAsUnknown(cfg, sch, path,
                      [val EXCEPT !.v = [i \in 1..Len(val.v) |-> kids[i].val]])
    ELSE IF val.k = "known" /\ val.t = "Object"
    THEN LET kids == [n \in DOMAIN val.v |->
                        transform(cfg, sch, Append(path, AttributeName(n)),
                                  val.v[n])]
         IN  IF \E n \in DOMAIN val.v : kids[n].err
             THEN [val |-> NilValue, err |-> TRUE]
             ELSE markComputedNilsAsUnknown(cfg, sch, path,
                      [val EXCEPT !.v = [n \in DOMAIN val.v |-> kids[n].val]])
    ELSE markComputedNilsAsUnknown(cfg, sch, path, val)

Transform(cfg, sch, val) == transform(cfg, sch, <<>>, val)

(***************************************************************************)
(* Wire values, diagnostics and the response.                              *)
(***************************************************************************)
\* tfprotov6.NewDynamicValue(typ, val) and (*DynamicValue).Unmarshal(typ).
NewDynamicValue(val) == [MsgPack |-> val]
Unmarshal(dv)        == dv.MsgPack
NilDynamicValue      == [MsgPack |-> NilValue]

ErrorDiagnostic(summary)   == [severity |-> "error", summary |-> summary]
WarningDiagnostic(summary) == [severity |-> "warning", summary |-> summary]

\* diag.Diagnostics.HasError
HasError(diags) == \E i \in 1..Len(diags) : diags[i].severity = "error"

NumWarnings(diags) ==
    Cardinality({i \in 1..Len(diags) : diags[i].severity = "warning"})

\* What a framework lookup (ResourceType, GetSchema, NewResource,
\* ProviderMetaSchema) may hand back as diags.
LookupDiags(ledger, what) ==
    {<<>>, <<ErrorDiagnostic(what)>>}
    \cup (IF NumWarnings(ledger) < MaxWarnings
          THEN {<<WarningDiagnostic(what)>>} ELSE {})

\* The response as it would be if it carried the proposed new state from
\* the start.
ResponseWithProposedState ==
    [PlannedState |-> req.ProposedNewState, Diagnostics |-> <<>>,
     RequiresReplace |-> <<>>]

\* resp := &tfprotov6.PlanResourceChangeResponse{}
EmptyResponse ==
    [PlannedState |-> NilDynamicValue, Diagnostics |-> <<>>,
     RequiresReplace |-> <<>>]

(***************************************************************************)
(* The plan modification callbacks.  What the provider's modifiers do is   *)
(* fixed per provider: a pass may rewrite the plan, append replacement     *)
(* paths and add one diagnostic.                                           *)
(***************************************************************************)
NoAttributePlanModifiers == [rewrite |-> "none", rr |-> <<>>, diag |-> "none"]
NoModifyPlan ==
    [ModifyPlan |-> FALSE, rewrite |-> "none", rr |-> <<>>, diag |-> "none"]

\* The value a modifier writes for an attribute.
ModifiedValue(attribute) ==
    IF attribute.Kind = "String" THEN StringValue("m")
    ELSE IF attribute.Kind = "ListOfString" THEN ListValue(<<StringValue("m")>>)
    ELSE ObjectValue([n \in DOMAIN attribute.Attributes |-> StringValue("m")])

CallbackDiags(diags, d, what) ==
    IF d = "error" THEN Append(diags, ErrorDiagnostic(what))
    ELSE IF d = "warning" THEN Append(diags, WarningDiagnostic(what))
    ELSE diags

\* SchemaModifyPlan(ctx, resourceSchema, req, &resp): every attribute plan
\* modifier of the schema, once.
SchemaModifyPlan(sch, mods, planIn, diags) ==
    [Plan |-> IF mods.rewrite = "none" THEN planIn
              ELSE [planIn EXCEPT !.v[mods.rewrite] =
                                     ModifiedValue(sch[mods.rewrite])],
     RequiresReplace |-> mods.rr,
     Diagnostics |-> CallbackDiags(diags, mods.diag, "AttributePlanModifier")]

\* The call as it would be if the plan the resource wrote were dropped.
ResourceModifyPlanKeepingPlan(sch, res, planIn, diags) ==
    [Plan |-> planIn,
     RequiresReplace |-> res.rr,
     Diagnostics |-> CallbackDiags(diags, res.diag, "ModifyPlan")]

\* resource.ModifyPlan(ctx, modifyPlanReq, &modifyPlanResp)
ResourceModifyPlan(sch, res, planIn, diags) ==
    [Plan |-> IF res.rewrite = "replace"
              THEN ObjectValue([n \in DOMAIN sch |-> ModifiedValue(sch[n])])
              ELSE IF res.rewrite = "remove" THEN NullValue("Object")
              ELSE planIn,
     RequiresReplace |-> res.rr,
     Diagnostics |-> CallbackDiags(diags, res.diag, "ModifyPlan")]

(***************************************************************************)
(* metaschema.StringAttribute and its path stepping.                       *)
(***************************************************************************)
ElementKeyString(k) == [kind |-> "ElementKeyString", name |-> k, idx |-> 0]
\* tftypes.ElementKeyValue(tftypes.NewValue(tftypes.String, s))
ElementKeyValue(val) == [kind |-> "ElementKeyValue", name |-> val.v, idx |-> 0]

\* metaschema.StringAttribute{CustomType: ..., Description: ...}; the empty
\* string is a nil CustomType.
MetaStringAttribute(customType, description) ==
    [CustomType |-> customType, Description |-> description]

\* (StringAttribute).GetType: the custom type if set, else the string type.
GetType(a) ==
    IF a.CustomType # "" THEN a.CustomType ELSE "basetypes.StringType"

\* The table of TestStringAttributeGetType.
GetTypeTestCases ==
    ("base" :>
        [attribute |-> MetaStringAttribute("", ""),
         expected |-> "basetypes.StringType"])
    @@ ("custom-type" :>
        [attribute |-> MetaStringAttribute("testtypes.StringType", ""),
         expected |-> "testtypes.StringType"])

\* An fwschema.Attribute as Equal receives it: the variant (the dynamic
\* type behind the interface) and the fields.
AsAttribute(variant, fields) == [variant |-> variant, fields |-> fields]

\* Equal as it would be without the test of the variant.
EqualIgnoringVariant(a, other) == other.fields = a

\* (StringAttribute).Equal: another variant is never equal; the same
\* variant is equal when every field is.
Equal(a, other) ==
    /\ other.variant = "metaschema.StringAttribute"
    /\ other.fields = a

\* The table of TestStringAttributeEqual.
EqualTestCases ==
    ("different-type" :>
        [attribute |-> MetaStringAttribute("", ""),
         other |-> AsAttribute("testschema.AttributeWithStringValidators",
                               MetaStringAttribute("", "")),
         expected |-> FALSE])
    @@ ("equal" :>
        [attribute |-> MetaStringAttribute("", ""),
         other |-> AsAttribute("metaschema.StringAttribute",
                               MetaStringAttribute("", "")),
         expected |-> TRUE])

\* strconv.FormatBool
FormatBool(b) == IF b THEN "true" ELSE "false"

\* %T of a step.
StepTypeName(step) ==
    IF step.kind = "AttributeName" THEN "tftypes.AttributeName"
    ELSE IF step.kind = "ElementKeyInt" THEN "tftypes.ElementKeyInt"
    ELSE IF step.kind = "ElementKeyString" THEN "tftypes.ElementKeyString"
    ELSE "tftypes.ElementKeyValue"

\* fmt.Errorf("cannot apply AttributePathStep %T to %s", step, typ), as
\* the pieces of the message.
CannotApplyStep(step, typ) ==
    <<"cannot apply AttributePathStep ", StepTypeName(step), " to ", typ>>

\* A string attribute that could be stepped into by list index.
ApplyStepAcceptingIndex(a, step) ==
    IF step.kind = "ElementKeyInt"
    THEN [result |-> GetType(a), err |-> <<>>]
    ELSE [result |-> "nil", err |-> CannotApplyStep(step, GetType(a))]

\* (StringAttribute).ApplyTerraform5AttributePathStep: the step applied to
\* the attribute's type, which has no children.
ApplyTerraform5AttributePathStep(a, step) ==
    [result |-> "nil", err |-> CannotApplyStep(step, GetType(a))]

\* The table of TestStringAttributeApplyTerraform5AttributePathStep.
ApplyStepTestCases ==
    [AttributeName |->
        [attribute |-> MetaStringAttribute("", ""),
         step |-> AttributeName("test"),
         expected |-> "nil",
         expectedError |-> <<"cannot apply AttributePathStep ",
                             "tftypes.AttributeName", " to ",
                             "basetypes.StringType">>],
     ElementKeyInt |->
        [attribute |-> MetaStringAttribute("", ""),
         step |-> ElementKeyInt(1),
         expected |-> "nil",
         expectedError |-> <<"cannot apply AttributePathStep ",
                             "tftypes.ElementKeyInt", " to ",
                             "basetypes.StringType">>],
     ElementKeyString |->
        [attribute |-> MetaStringAttribute("", ""),
         step |-> ElementKeyString("test"),
         expected |-> "nil",
         expectedError |-> <<"cannot apply AttributePathStep ",
                             "tftypes.ElementKeyString", " to ",
                             "basetypes.StringType">>],
     ElementKeyValue |->
        [attribute |-> MetaStringAttribute("", ""),
         step |-> ElementKeyValue(StringValue("test")),
         expected |-> "nil",
         expectedError |-> <<"cannot apply AttributePathStep ",
                             "tftypes.ElementKeyValue", " to ",
                             "basetypes.StringType">>]]

(***************************************************************************)
(* path.Path, fmt's %q and the diagnostics of fwschema/diagnostics.go.     *)
(* A text is a sequence of pieces; a piece is one character where the      *)
(* character matters to quoting and a run of plain characters otherwise.   *)
(***************************************************************************)
MaxSteps == 2   \* most steps below the root of an attribute path

PathStepAttributeName(n)    == [kind |-> "AttributeName", name |-> n, idx |-> 0]
PathStepElementKeyInt(i)    == [kind |-> "ElementKeyInt", name |-> "", idx |-> i]
PathStepElementKeyString(k) == [kind |-> "ElementKeyString", name |-> k, idx |-> 0]
PathStepElementKeyValue(v)  == [kind |-> "ElementKeyValue", name |-> v, idx |-> 0]

\* One step as (path.Path).String() writes it, at position i of the path.
PathStepString(step, i) ==
    IF step.kind = "AttributeName"
    THEN IF i = 1 THEN <<step.name>> ELSE <<".", step.name>>
    ELSE IF step.kind = "ElementKeyInt"
    THEN <<"[">> \o FormatInt(step.idx) \o <<"]">>
    ELSE IF step.kind = "ElementKeyString"
    THEN <<"[", "\"", step.name, "\"", "]">>
    ELSE <<"[", "Value(", "\"", step.name, "\"", ")", "]">>

\* (path.Path).String()
RECURSIVE PathStringFrom(_, _)
PathStringFrom(p, i) ==
    IF i > Len(p) THEN <<>>
    ELSE PathStepString(p[i], i) \o PathStringFrom(p, i + 1)

PathString(p) == PathStringFrom(p, 1)

\* strconv.Quote, which %q applies to the String() of its operand: the
\* text in double quotes, with \" for a double quote and \\ for a backslash.
RECURSIVE QuoteBody(_)
QuoteBody(text) ==
    IF text = <<>> THEN <<>>
    ELSE (IF text[1] = "\"" THEN <<"\\", "\"">>
          ELSE IF text[1] = "\\" THEN <<"\\", "\\">>
          ELSE <<text[1]>>) \o QuoteBody(Tail(text))

Quote(text) == <<"\"">> \o QuoteBody(text) \o <<"\"">>

\* diag.NewErrorDiagnostic(summary, detail): an error with no path.
NewErrorDiagnostic(summary, detail) ==
    [severity |-> "error", summary |-> summary, detail |-> detail,
     withPath |-> FALSE]

NoDiagnostic ==
    [severity |-> "", summary |-> "", detail |-> <<>>, withPath |-> FALSE]

\* The diagnostic with the path left out of the detail.
AttributeMissingAttributeTypesDiagWithoutPath(attributePath) ==
    NewErrorDiagnostic(
        "Invalid Attribute Implementation",
        <<"When validating the schema, an implementation issue was found. ",
          "This is always an issue with the provider and should be reported to the provider developers.\n\n">>
        \o <<" is missing the AttributeTypes or CustomType field on an object Attribute. ">>
        \o <<"One of these fields is required to prevent other unexpected errors or panics.">>)

AttributeMissingAttributeTypesDiag(attributePath) ==
    NewErrorDiagnostic(
        "Invalid Attribute Implementation",
        <<"When validating the schema, an implementation issue was found. ",
          "This is always an issue with the provider and should be reported to the provider developers.\n\n">>
        \o Quote(PathString(attributePath))
        \o <<" is missing the AttributeTypes or CustomType field on an object Attribute. ">>
        \o <<"One of these fields is required to prevent other unexpected errors or panics.">>)

AttributeMissingElementTypeDiag(attributePath) ==
    NewErrorDiagnostic(
        "Invalid Attribute Implementation",
        <<"When validating the schema, an implementation issue was found. ",
          "This is always an issue with the provider and should be reported to the provider developers.\n\n">>
        \o Quote(PathString(attributePath))
        \o <<" is missing the CustomType or ElementType field on a collection Attribute. ">>
        \o <<"One of these fields is required to prevent other unexpected errors or panics.">>)

\* No call made, nothing returned.
NoCall ==
    [op |-> "", attribute |-> MetaStringAttribute("", ""),
     step |-> AttributeName(""), path |-> <<>>,
     other |-> AsAttribute("", MetaStringAttribute("", ""))]
NoResult ==
    [returned |-> FALSE, result |-> "nil", err |-> <<>>, diag |-> NoDiagnostic]

(***************************************************************************)
(* The registry of cancel funcs: registerContext, cancelRegisteredContexts *)
(* and StopProvider.  A cancel func is named after the goroutine that      *)
(* registered it: each registration makes a new one.                       *)
(***************************************************************************)
\* The goroutines next to the PlanResourceChange handler: another RPC
\* handler, which registers its context on entry, and StopProvider calls.
Callers  == {"rpc1"}
Stoppers == {"stop1", "stop2"}
Handles  == {"PlanResourceChange"} \cup Callers

\* A mutex that never makes its caller wait.
LockAlwaysAcquirable(mu) == TRUE

\* s.contextCancelsMu.Lock() returns once no goroutine holds the mutex.
LockAcquirable(mu) == mu = ""

\* An Unlock that leaves the mutex with its holder.
UnlockKeepingLock(holder) == holder

\* The Unlock as it would be if registerContext returned with the mutex
\* still locked.
UnlockByStopProviderOnly(holder) ==
    IF holder \in Stoppers THEN "" ELSE holder

\* defer s.contextCancelsMu.Unlock()
Unlock(holder) == ""

\* s.contextCancels = append(s.contextCancels, cancel)
AppendCancel(cancels, cancel) == Append(cancels, cancel)

\* for _, cancel := range s.contextCancels { cancel() }
InvokeAll(calls, cancels) ==
    [h \in DOMAIN calls |->
        calls[h] + Cardinality({i \in 1..Len(cancels) : cancels[i] = h})]

\* The sweep as it would be without the reset of the slice.
KeepRegistry(cancels) == cancels

\* s.contextCancels = nil
ClearRegistry(cancels) == <<>>

RegistryIdle ==
    /\ contextCancels = <<>>
    /\ contextCancelsMu = ""
    /\ cancelCalls = [h \in Handles |-> 0]
    /\ rpc = [g \in Callers \cup Stoppers |-> "idle"]

(***************************************************************************)
(* The schemas, requests and providers the model starts from.              *)
(***************************************************************************)
OptionalOnly == [Computed |-> FALSE, Optional |-> TRUE]
ComputedOnly == [Computed |-> TRUE,  Optional |-> FALSE]
OptionalComputed == [Computed |-> TRUE,  Optional |-> TRUE]
Flags == {OptionalOnly, ComputedOnly}

StringAttribute(f) == Attribute("String", f.Computed, f.Optional, <<>>)
ListAttribute(f)   == Attribute("ListOfString", f.Computed, f.Optional, <<>>)
NestedAttribute(f, children) ==
    Attribute("SingleNested", f.Computed, f.Optional, children)

StringValues(s) == {NullValue("String"), StringValue(s)}
ListValues(s)   == {NullValue("List"), ListValue(<<StringValue(s)>>)}

\* Two string attributes.
SchemasA ==
    {[id |-> StringAttribute(f), name |-> StringAttribute(g)] :
        f \in Flags, g \in Flags}
ObjectsA ==
    {ObjectValue([id |-> i, name |-> n]) :
        i \in StringValues("1"), n \in StringValues("a")}

\* {id: computed, name: optional, tags: list of string}.
SchemasB ==
    {[id   |-> StringAttribute(ComputedOnly),
      name |-> StringAttribute(OptionalOnly),
      tags |-> ListAttribute(f)] : f \in Flags \cup {OptionalComputed}}
ObjectsB(ids) ==
    {ObjectValue([id |-> i, name |-> StringValue("a"), tags |-> g]) :
        i \in ids, g \in ListValues("x")}

\* One nested attribute with one child attribute.
SchemasC ==
    {[obj |-> NestedAttribute(f, [c |-> StringAttribute(g)])] :
        f \in Flags, g \in Flags}
ObjectsC ==
    {ObjectValue([obj |-> o]) :
        o \in {NullValue("Object")}
              \cup {ObjectValue([c |-> x]) : x \in StringValues("v")}}

\* One computed string attribute and one nested block.
BlockAttribute(children) == Attribute("Block", FALSE, FALSE, children)
SchemaD ==
    [id  |-> StringAttribute(ComputedOnly),
     blk |-> BlockAttribute([c |-> StringAttribute(OptionalOnly)])]
ObjectsD ==
    {ObjectValue([id |-> i, blk |-> b]) :
        i \in StringValues("1"),
        b \in {NullValue("Object"), ObjectValue([c |-> StringValue("v")])}}

WireValues(S) == {NewDynamicValue(val) : val \in S}

Requests(configs, priors, proposeds) ==
    [Config : WireValues(configs),
     PriorState : WireValues(priors \cup {NullValue("Object")}),
     ProposedNewState : WireValues(proposeds \cup {NullValue("Object")})]

\* Providers whose modifiers rewrite the plan.
RewritingAttrMods(sch) ==
    {NoAttributePlanModifiers}
    \cup {[rewrite |-> n, rr |-> <<>>, diag |-> "none"] : n \in DOMAIN sch}
RewritingResources ==
    {NoModifyPlan}
    \cup {[ModifyPlan |-> TRUE, rewrite |-> w, rr |-> <<>>, diag |-> "none"] :
            w \in {"none", "replace"}}

\* Providers whose modifiers ask for replacement and raise diagnostics.
ModifierPaths == RRPaths \ {<<AttributeName("tags"), ElementKeyInt(0)>>}
ReplacingAttrMods ==
    [rewrite : {"none"}, rr : SeqsUpTo(ModifierPaths, MaxAppend),
     diag : {"none", "warning", "error"}]
ReplacingResources ==
    {NoModifyPlan}
    \cup [ModifyPlan : {TRUE}, rewrite : {"none", "remove"},
          rr : SeqsUpTo(ModifierPaths, MaxAppend),
          diag : {"none", "warning", "error"}]

FnIdle ==
    /\ call = NoCall
    /\ got = NoResult

InitLocals ==
    /\ pc = "PlanResourceChange"
    /\ config = NilValue
    /\ plan = NilValue
    /\ state = NilValue
    /\ modifyPlanResp = <<>>
    /\ resp = EmptyResponse
    /\ trace = <<>>

NormIdle ==
    /\ rs = <<>>
    /\ ret = <<>>
    /\ npc = "idle"
    /\ first = [rs |-> <<>>, ret |-> <<>>]

InitA ==
    /\ schema \in SchemasA
    /\ req \in Requests(ObjectsA, ObjectsA, ObjectsA)
    /\ attrMods \in RewritingAttrMods(schema)
    /\ resource \in RewritingResources

InitB ==
    /\ schema \in SchemasB
    /\ req \in Requests(ObjectsB({NullValue("String")}),
                        ObjectsB({StringValue("1")}),
                        ObjectsB({StringValue("1")}))
    /\ attrMods \in RewritingAttrMods(schema)
    /\ resource \in RewritingResources

InitC ==
    /\ schema \in SchemasC
    /\ req \in Requests(ObjectsC, ObjectsC, ObjectsC)
    /\ attrMods \in RewritingAttrMods(schema)
    /\ resource \in RewritingResources

InitD ==
    /\ schema = SchemaD
    /\ req \in Requests(ObjectsD, ObjectsD, ObjectsD)
    /\ attrMods = NoAttributePlanModifiers
    /\ resource \in {NoModifyPlan,
                     [ModifyPlan |-> TRUE, rewrite |-> "none", rr |-> <<>>,
                      diag |-> "none"]}

\* The request of the end-to-end scenario.
ScenarioSchema ==
    [id   |-> StringAttribute(ComputedOnly),
     name |-> StringAttribute(OptionalOnly),
     tags |-> ListAttribute(OptionalComputed)]
ScenarioRequest ==
    [Config |-> NewDynamicValue(ObjectValue(
        [id |-> NullValue("String"), name |-> StringValue("a"),
         tags |-> NullValue("List")])),
     PriorState |-> NewDynamicValue(ObjectValue(
        [id |-> StringValue("1"), name |-> StringValue("a"),
         tags |-> ListValue(<<StringValue("x")>>)])),
     ProposedNewState |-> NewDynamicValue(ObjectValue(
        [id |-> StringValue("1"), name |-> StringValue("a"),
         tags |-> NullValue("List")]))]

InitReplacing ==
    /\ schema = ScenarioSchema
    /\ req = ScenarioRequest
    /\ attrMods \in ReplacingAttrMods
    /\ resource \in ReplacingResources

Init ==
    /\ InitA \/ InitB \/ InitC \/ InitD \/ InitReplacing
    /\ InitLocals
    /\ NormIdle
    /\ RegistryIdle
    /\ FnIdle

(***************************************************************************)
(* PlanResourceChange and planResourceChange, one action per step.         *)
(***************************************************************************)
\* The error added twice.
AddErrorTwice(summary) ==
    [resp EXCEPT !.Diagnostics =
        Append(Append(@, ErrorDiagnostic(summary)), ErrorDiagnostic(summary))]

\* resp.Diagnostics.AddError(summary, detail)
AddError(summary) ==
    [resp EXCEPT !.Diagnostics = Append(@, ErrorDiagnostic(summary))]

\* The append as it would be if it overwrote the list collected so far.
AppendRequiresReplaceOverwriting(collected, more) == more

\* The append as it would be if a pass that asks for replacement replaced
\* the paths of the passes before it.
AppendRequiresReplaceKeepingLast(collected, more) ==
    IF more = <<>> THEN collected ELSE more

\* resp.RequiresReplace = append(resp.RequiresReplace, more...)
AppendRequiresReplace(collected, more) == collected \o more

\* What s.FrameworkServer.ProviderMetaSchema and the provider_meta
\* unmarshalling may do before a modification pass.
ProviderMetaOutcomes(ledger) ==
    {[diags |-> d, parseError |-> e] :
        d \in LookupDiags(ledger, "ProviderMetaSchema"), e \in BOOLEAN}

\* PlanResourceChange: registerContext, a fresh response, then
\* planResourceChange.
PlanResourceChange ==
    /\ pc = "PlanResourceChange"
    /\ LockAcquirable(contextCancelsMu)
    /\ contextCancels' = AppendCancel(contextCancels, "PlanResourceChange")
    /\ contextCancelsMu' = Unlock("PlanResourceChange")
    /\ resp' = EmptyResponse
    /\ pc' = "ResourceType"
    /\ UNCHANGED <<schema, req, attrMods, resource, config, plan, state,
                   modifyPlanResp, trace>>
    /\ UNCHANGED <<cancelCalls, rpc>>
    /\ UNCHANGED <<normVars, fnVars>>

\* s.FrameworkServer.ResourceType(ctx, req.TypeName)
ResourceType ==
    /\ pc = "ResourceType"
    /\ \E diags \in LookupDiags(resp.Diagnostics, "ResourceType") :
          /\ resp' = [resp EXCEPT !.Diagnostics = @ \o diags]
          /\ pc' = IF HasError(resp'.Diagnostics) THEN "returned"
                   ELSE "GetSchema"
    /\ UNCHANGED <<schema, req, attrMods, resource, config, plan, state,
                   modifyPlanResp, trace>>
    /\ UNCHANGED <<normVars, regVars, fnVars>>

\* resourceType.GetSchema(ctx)
GetSchema ==
    /\ pc = "GetSchema"
    /\ \E diags \in LookupDiags(resp.Diagnostics, "GetSchema") :
          /\ resp' = [resp EXCEPT !.Diagnostics = @ \o diags]
          /\ pc' = IF HasError(resp'.Diagnostics) THEN "returned"
                   ELSE "Unmarshal"
    /\ UNCHANGED <<schema, req, attrMods, resource, config, plan, state,
                   modifyPlanResp, trace>>
    /\ UNCHANGED <<normVars, regVars, fnVars>>

\* The three Unmarshal calls and resp.PlannedState = req.ProposedNewState.
\* Whether the wire bytes parse is left open.
UnmarshalRequest ==
    /\ pc = "Unmarshal"
    /\ \E failing \in {"none", "config", "plan", "state"} :
          /\ config' = IF failing = "config" THEN config
                       ELSE Unmarshal(req.Config)
          /\ plan' = IF failing \in {"config", "plan"} THEN plan
                     ELSE Unmarshal(req.ProposedNewState)
          /\ state' = IF failing \in {"config", "plan", "state"} THEN state
                      ELSE Unmarshal(req.PriorState)
          /\ resp' =
                IF failing = "config" THEN AddError("Error parsing configuration")
                ELSE IF failing = "plan" THEN AddError("Error parsing plan")
                ELSE IF failing = "state" THEN AddError("Error parsing prior state")
                ELSE [resp EXCEPT !.PlannedState = req.ProposedNewState]
          /\ pc' = IF failing = "none" THEN "NewResource" ELSE "returned"
    /\ UNCHANGED <<schema, req, attrMods, resource, modifyPlanResp, trace>>
    /\ UNCHANGED <<normVars, regVars, fnVars>>

\* resourceType.NewResource(ctx, s.FrameworkServer.Provider)
NewResource ==
    /\ pc = "NewResource"
    /\ \E diags \in LookupDiags(resp.Diagnostics, "NewResource") :
          /\ resp' = [resp EXCEPT !.Diagnostics = @ \o diags]
          /\ pc' = IF HasError(resp'.Diagnostics) THEN "returned"
                   ELSE "MarkUnknown"
          /\ trace' = IF HasError(resp'.Diagnostics) THEN trace
                      ELSE Append(trace, "NewResource")
    /\ UNCHANGED <<schema, req, attrMods, resource, config, plan, state,
                   modifyPlanResp>>
    /\ UNCHANGED <<normVars, regVars, fnVars>>

\* The condition without the comparison with the prior state.
MarkUnknownRunsOnAnyPlan(p, st) == ~IsNull(p)

\* if !plan.IsNull() && !plan.Equal(state) { tftypes.Transform(...) }
MarkUnknownRuns(p, st) == ~IsNull(p) /\ ~ValueEqual(p, st)

MarkUnknown ==
    /\ pc = "MarkUnknown"
    /\ IF MarkUnknownRuns(plan, state)
       THEN LET modifiedPlan == Transform(config, schema, plan)
            IN  /\ trace' = Append(trace, "MarkUnknown")
                /\ IF modifiedPlan.err
                   THEN /\ resp' = AddError("Error modifying plan")
                        /\ pc' = "returned"
                        /\ plan' = plan
                   ELSE /\ resp' = resp
                        /\ pc' = "AttributePlanModifiers"
                        /\ plan' = modifiedPlan.val
       ELSE /\ pc' = "AttributePlanModifiers"
            /\ UNCHANGED <<plan, resp, trace>>
    /\ UNCHANGED <<schema, req, attrMods, resource, config, state,
                   modifyPlanResp>>
    /\ UNCHANGED <<normVars, regVars, fnVars>>

\* The condition as it would be if the attribute-level pass were skipped.
AttributePassNeverRuns(p) == FALSE

\* if !plan.IsNull() { ... SchemaModifyPlan(...) ... }
AttributePassRuns(p) == ~IsNull(p)

\* The test as it would be if any diagnostic ended the request.
AttributePassAbortsOnAnyDiagnostic(diags) == Len(diags) > 0

\* if resp.Diagnostics.HasError() { return }, after the pass
AttributePassAborts(diags) == HasError(diags)

AttributePlanModifiers ==
    /\ pc = "AttributePlanModifiers"
    /\ IF AttributePassRuns(plan)
       THEN \E pm \in ProviderMetaOutcomes(resp.Diagnostics) :
              LET metaDiags == resp.Diagnostics \o pm.diags
                  out == SchemaModifyPlan(schema, attrMods, plan, metaDiags)
              IN  IF HasError(metaDiags)
                  THEN /\ resp' = [resp EXCEPT !.Diagnostics = metaDiags]
                       /\ pc' = "returned"
                       /\ UNCHANGED <<plan, trace>>
                  ELSE IF pm.parseError
                  THEN /\ resp' = [resp EXCEPT !.Diagnostics =
                              Append(metaDiags,
                                     ErrorDiagnostic("Error parsing provider_meta"))]
                       /\ pc' = "returned"
                       /\ UNCHANGED <<plan, trace>>
                  ELSE /\ resp' = [resp EXCEPT
                              !.RequiresReplace =
                                  AppendRequiresReplace(@, out.RequiresReplace),
                              !.Diagnostics = out.Diagnostics]
                       /\ plan' = out.Plan
                       /\ trace' = Append(trace, "AttributePlanModifiers")
                       /\ pc' = IF AttributePassAborts(out.Diagnostics)
                                THEN "returned"
                                ELSE "ModifyPlan"
       ELSE /\ pc' = "ModifyPlan"
            /\ UNCHANGED <<plan, resp, trace>>
    /\ UNCHANGED <<schema, req, attrMods, resource, config, state,
                   modifyPlanResp>>
    /\ UNCHANGED <<normVars, regVars, fnVars>>

\* if resource, ok := resource.(tfsdk.ResourceWithModifyPlan); ok { ... }
\* The type assertion as it would be if it never succeeded.
ResourceWithoutModifyPlan(res) == FALSE
ResourceWithModifyPlan(res) == res.ModifyPlan

ModifyPlan ==
    /\ pc = "ModifyPlan"
    /\ IF ResourceWithModifyPlan(resource)
       THEN \E pm \in ProviderMetaOutcomes(resp.Diagnostics) :
              LET metaDiags == resp.Diagnostics \o pm.diags
                  out == ResourceModifyPlan(schema, resource, plan, metaDiags)
              IN  IF HasError(metaDiags)
                  THEN /\ resp' = [resp EXCEPT !.Diagnostics = metaDiags]
                       /\ pc' = "returned"
                       /\ UNCHANGED <<plan, trace, modifyPlanResp>>
                  ELSE IF pm.parseError
                  THEN /\ resp' = [resp EXCEPT !.Diagnostics =
                              Append(metaDiags,
                                     ErrorDiagnostic("Error parsing provider_meta"))]
                       /\ pc' = "returned"
                       /\ UNCHANGED <<plan, trace, modifyPlanResp>>
                  ELSE /\ resp' = [resp EXCEPT !.Diagnostics = out.Diagnostics]
                       /\ plan' = out.Plan
                       /\ modifyPlanResp' = out.RequiresReplace
                       /\ trace' = Append(trace, "ModifyPlan")
                       /\ pc' = "Convert"
       ELSE /\ pc' = "Convert"
            /\ UNCHANGED <<plan, resp, trace, modifyPlanResp>>
    /\ UNCHANGED <<schema, req, attrMods, resource, config, state>>
    /\ UNCHANGED <<normVars, regVars, fnVars>>

\* tfprotov6.NewDynamicValue, then the final RequiresReplace.  Whether the
\* plan converts is left open.
Convert ==
    /\ pc = "Convert"
    /\ \E failing \in BOOLEAN :
          IF failing
          THEN resp' = AddError("Error converting response")
          ELSE \E normalised \in normaliseRequiresReplace(
                                    AppendRequiresReplace(resp.RequiresReplace,
                                                          modifyPlanResp)) :
                  resp' = [resp EXCEPT
                              !.PlannedState = NewDynamicValue(plan),
                              !.RequiresReplace = normalised]
    /\ pc' = "returned"
    /\ UNCHANGED <<schema, req, attrMods, resource, config, plan, state,
                   modifyPlanResp, trace>>
    /\ UNCHANGED <<normVars, regVars, fnVars>>

Next ==
    \/ PlanResourceChange
    \/ ResourceType
    \/ GetSchema
    \/ UnmarshalRequest
    \/ NewResource
    \/ MarkUnknown
    \/ AttributePlanModifiers
    \/ ModifyPlan
    \/ Convert

Spec == Init /\ [][Next]_vars

(***************************************************************************)
(* normaliseRequiresReplace on its own: every path list up to MaxLen.      *)
(***************************************************************************)
InitNorm ==
    /\ rs \in SeqsUpTo(RRPaths, MaxLen)
    /\ ret = <<>>
    /\ npc = "call"
    /\ first = [rs |-> <<>>, ret |-> <<>>]
    /\ schema = ScenarioSchema
    /\ req = ScenarioRequest
    /\ attrMods = NoAttributePlanModifiers
    /\ resource = NoModifyPlan
    /\ InitLocals
    /\ RegistryIdle
    /\ FnIdle

Normalise ==
    /\ npc = "call"
    /\ ret' \in normaliseRequiresReplace(rs)
    /\ npc' = "returned"
    /\ UNCHANGED <<rs, first>>
    /\ UNCHANGED <<reqVars, regVars, fnVars>>

\* A second call, on the slice the first call returned.
NormaliseAgain ==
    /\ npc = "returned"
    /\ first' = [rs |-> rs, ret |-> ret]
    /\ rs' = ret
    /\ ret' \in normaliseRequiresReplace(rs')
    /\ npc' = "returned again"
    /\ UNCHANGED <<reqVars, regVars, fnVars>>

\* Every order the elements of a slice can be in.
Shuffles(s) ==
    {[i \in 1..Len(s) |-> s[f[i]]] : f \in Permutations(1..Len(s))}

\* A second call, on the argument of the first call in another order.
NormaliseShuffled ==
    /\ npc = "returned"
    /\ first' = [rs |-> rs, ret |-> ret]
    /\ rs' \in Shuffles(rs)
    /\ ret' \in normaliseRequiresReplace(rs')
    /\ npc' = "returned shuffled"
    /\ UNCHANGED <<reqVars, regVars, fnVars>>

NextNorm ==
    \/ Normalise
    \/ NormaliseAgain
    \/ NormaliseShuffled

SpecNorm == InitNorm /\ [][NextNorm]_vars

(***************************************************************************)
(* The server with its goroutines: the PlanResourceChange handler, another *)
(* RPC handler and the StopProvider calls, interleaved.                    *)
(***************************************************************************)
\* registerContext: s.contextCancelsMu.Lock()
RegisterLock(g) ==
    /\ rpc[g] = "idle"
    /\ LockAcquirable(contextCancelsMu)
    /\ contextCancelsMu' = g
    /\ rpc' = [rpc EXCEPT ![g] = "register locked"]
    /\ UNCHANGED <<contextCancels, cancelCalls>>
    /\ UNCHANGED <<reqVars, normVars, fnVars>>

\* registerContext: the append
RegisterAppend(g) ==
    /\ rpc[g] = "register locked"
    /\ contextCancels' = AppendCancel(contextCancels, g)
    /\ rpc' = [rpc EXCEPT ![g] = "register appended"]
    /\ UNCHANGED <<contextCancelsMu, cancelCalls>>
    /\ UNCHANGED <<reqVars, normVars, fnVars>>

\* registerContext: the deferred Unlock and the return of ctx
RegisterUnlock(g) ==
    /\ rpc[g] = "register appended"
    /\ contextCancelsMu' = Unlock(g)
    /\ rpc' = [rpc EXCEPT ![g] = "handling"]
    /\ UNCHANGED <<contextCancels, cancelCalls>>
    /\ UNCHANGED <<reqVars, normVars, fnVars>>

\* The handler returns its response.
HandlerReturn(g) ==
    /\ rpc[g] = "handling"
    /\ rpc' = [rpc EXCEPT ![g] = "returned"]
    /\ UNCHANGED <<contextCancels, contextCancelsMu, cancelCalls>>
    /\ UNCHANGED <<reqVars, normVars, fnVars>>

\* StopProvider -> cancelRegisteredContexts: s.contextCancelsMu.Lock()
CancelLock(g) ==
    /\ rpc[g] = "idle"
    /\ LockAcquirable(contextCancelsMu)
    /\ contextCancelsMu' = g
    /\ rpc' = [rpc EXCEPT ![g] = "cancel locked"]
    /\ UNCHANGED <<contextCancels, cancelCalls>>
    /\ UNCHANGED <<reqVars, normVars, fnVars>>

\* cancelRegisteredContexts: the loop over s.contextCancels
CancelSweep(g) ==
    /\ rpc[g] = "cancel locked"
    /\ cancelCalls' = InvokeAll(cancelCalls, contextCancels)
    /\ rpc' = [rpc EXCEPT ![g] = "cancel swept"]
    /\ UNCHANGED <<contextCancels, contextCancelsMu>>
    /\ UNCHANGED <<reqVars, normVars, fnVars>>

\* cancelRegisteredContexts: s.contextCancels = nil
CancelClear(g) ==
    /\ rpc[g] = "cancel swept"
    /\ contextCancels' = ClearRegistry(contextCancels)
    /\ rpc' = [rpc EXCEPT ![g] = "cancel cleared"]
    /\ UNCHANGED <<contextCancelsMu, cancelCalls>>
    /\ UNCHANGED <<reqVars, normVars, fnVars>>

\* cancelRegisteredContexts: the deferred Unlock; StopProvider returns.
CancelUnlock(g) ==
    /\ rpc[g] = "cancel cleared"
    /\ contextCancelsMu' = Unlock(g)
    /\ rpc' = [rpc EXCEPT ![g] = "returned"]
    /\ UNCHANGED <<contextCancels, cancelCalls>>
    /\ UNCHANGED <<reqVars, normVars, fnVars>>

Handler(g) ==
    \/ RegisterLock(g)
    \/ RegisterAppend(g)
    \/ RegisterUnlock(g)
    \/ HandlerReturn(g)

StopProvider(g) ==
    \/ CancelLock(g)
    \/ CancelSweep(g)
    \/ CancelClear(g)
    \/ CancelUnlock(g)

\* The providers of the server runs: the attribute plan modifiers ask for
\* replacement and warn, the resource may implement ModifyPlan.
ServerAttrMods ==
    {[rewrite |-> "none", rr |-> <<<<AttributeName("name")>>>>,
      diag |-> "warning"]}
ServerResources ==
    {NoModifyPlan,
     [ModifyPlan |-> TRUE, rewrite |-> "replace",
      rr |-> <<<<AttributeName("id")>>>>, diag |-> "none"]}

InitServer ==
    /\ schema = ScenarioSchema
    /\ req = ScenarioRequest
    /\ attrMods \in ServerAttrMods
    /\ resource \in ServerResources
    /\ InitLocals
    /\ NormIdle
    /\ RegistryIdle
    /\ FnIdle

NextServer ==
    \/ Next
    \/ \E g \in Callers : Handler(g)
    \/ \E g \in Stoppers : StopProvider(g)

SpecServer == InitServer /\ [][NextServer]_vars

\* Every goroutine that can take a step is scheduled eventually.
FairSpecServer ==
    /\ SpecServer
    /\ WF_vars(Next)
    /\ \A g \in Callers : WF_vars(Handler(g))
    /\ \A g \in Stoppers : WF_vars(StopProvider(g))

(***************************************************************************)
(* The schema functions on their own: every call in the bounds.            *)
(***************************************************************************)
MetaStringAttributes ==
    {MetaStringAttribute(t, d) :
        t \in {"", "testtypes.StringType"}, d \in {"", "test description"}}

Steps ==
    {AttributeName("test"), AttributeName("id"), ElementKeyInt(0),
     ElementKeyInt(1), ElementKeyString("test"),
     ElementKeyValue(StringValue("test"))}

PathSteps ==
    {PathStepAttributeName("nested"), PathStepElementKeyInt(0),
     PathStepElementKeyString("key"), PathStepElementKeyValue("value")}

\* path.Root("test") and up to MaxSteps further steps.
Paths ==
    {<<PathStepAttributeName("test")>> \o q : q \in SeqsUpTo(PathSteps, MaxSteps)}

\* The attributes Equal is handed: string attributes and attributes of
\* another variant.
OtherAttributes ==
    {AsAttribute(v, b) :
        v \in {"metaschema.StringAttribute",
               "testschema.AttributeWithStringValidators"},
        b \in MetaStringAttributes}

Calls ==
    {[op |-> "ApplyTerraform5AttributePathStep", attribute |-> a, step |-> st,
      path |-> <<>>, other |-> NoCall.other] :
        a \in MetaStringAttributes, st \in Steps}
    \cup
    {[op |-> o, attribute |-> NoCall.attribute, step |-> NoCall.step,
      path |-> q, other |-> NoCall.other] :
        o \in {"AttributeMissingAttributeTypesDiag",
                "AttributeMissingElementTypeDiag"},
        q \in Paths}
    \cup
    {[op |-> "GetType", attribute |-> a, step |-> NoCall.step,
      path |-> <<>>, other |-> NoCall.other] : a \in MetaStringAttributes}
    \cup
    {[op |-> "Equal", attribute |-> a, step |-> NoCall.step,
      path |-> <<>>, other |-> o] :
        a \in MetaStringAttributes, o \in OtherAttributes}

InitSchema ==
    /\ call \in Calls
    /\ got = NoResult
    /\ schema = ScenarioSchema
    /\ req = ScenarioRequest
    /\ attrMods = NoAttributePlanModifiers
    /\ resource = NoModifyPlan
    /\ InitLocals
    /\ NormIdle
    /\ RegistryIdle

CallApplyTerraform5AttributePathStep ==
    /\ call.op = "ApplyTerraform5AttributePathStep"
    /\ ~got.returned
    /\ LET out == ApplyTerraform5AttributePathStep(call.attribute, call.step)
       IN  got' = [got EXCEPT !.returned = TRUE, !.result = out.result,
                              !.err = out.err]
    /\ UNCHANGED call
    /\ UNCHANGED <<reqVars, normVars, regVars>>

CallAttributeMissingAttributeTypesDiag ==
    /\ call.op = "AttributeMissingAttributeTypesDiag"
    /\ ~got.returned
    /\ got' = [got EXCEPT !.returned = TRUE,
                          !.diag = AttributeMissingAttributeTypesDiag(call.path)]
    /\ UNCHANGED call
    /\ UNCHANGED <<reqVars, normVars, regVars>>

CallAttributeMissingElementTypeDiag ==
    /\ call.op = "AttributeMissingElementTypeDiag"
    /\ ~got.returned
    /\ got' = [got EXCEPT !.returned = TRUE,
                          !.diag = AttributeMissingElementTypeDiag(call.path)]
    /\ UNCHANGED call
    /\ UNCHANGED <<reqVars, normVars, regVars>>

\* got := testCase.attribute.GetType()
CallGetType ==
    /\ call.op = "GetType"
    /\ ~got.returned
    /\ got' = [got EXCEPT !.returned = TRUE,
                          !.result = GetType(call.attribute)]
    /\ UNCHANGED call
    /\ UNCHANGED <<reqVars, normVars, regVars>>

\* got := testCase.attribute.Equal(testCase.other)
CallEqual ==
    /\ call.op = "Equal"
    /\ ~got.returned
    /\ got' = [got EXCEPT !.returned = TRUE,
                          !.result = FormatBool(Equal(call.attribute,
                                                      call.other))]
    /\ UNCHANGED call
    /\ UNCHANGED <<reqVars, normVars, regVars>>

NextSchema ==
    \/ CallGetType
    \/ CallEqual
    \/ CallApplyTerraform5AttributePathStep
    \/ CallAttributeMissingAttributeTypesDiag
    \/ CallAttributeMissingElementTypeDiag

SpecSchema == InitSchema /\ [][NextSchema]_vars

(***************************************************************************)
(* Properties.                                                             *)
(***************************************************************************)
Proposed == Unmarshal(req.ProposedNewState)
Prior    == Unmarshal(req.PriorState)

Elems(s)    == {s[i] : i \in 1..Len(s)}
Count(s, x) == Cardinality({i \in 1..Len(s) : s[i] = x})
Ran(pass)   == \E i \in 1..Len(trace) : trace[i] = pass

StrictlyAscending(s) ==
    \A i \in 1..(Len(s) - 1) : StrLess(String(s[i]), String(s[i + 1]))

\* Every path of a value: the empty path, and the paths of the children of
\* a known list or object.
RECURSIVE Positions(_)
Positions(val) ==
    {<<>>} \cup
    (IF val.k = "known" /\ val.t = "List"
     THEN UNION {{<<ElementKeyInt(i - 1)>> \o q : q \in Positions(val.v[i])} :
                    i \in 1..Len(val.v)}
     ELSE IF val.k = "known" /\ val.t = "Object"
     THEN UNION {{<<AttributeName(n)>> \o q : q \in Positions(val.v[n])} :
                    n \in DOMAIN val.v}
     ELSE {})

ValueAt(val, path) == WalkAttributePath(val, path).val
Exists(val, path)  == WalkAttributePath(val, path).err = ""

\* The request completed: planResourceChange returned with no error.
Completed == pc = "returned" /\ ~HasError(resp.Diagnostics)

\* The mark-unknown pass has just run without error.
AfterMarkUnknown == pc = "AttributePlanModifiers" /\ Ran("MarkUnknown")

\* C1: for every path list, normaliseRequiresReplace returns a list that is
\* strictly ascending by the paths' string rendering and holds exactly the
\* distinct paths of its argument.
C1_NormaliseSortedDistinct ==
    npc = "returned" =>
        /\ StrictlyAscending(ret)
        /\ Elems(ret) = Elems(rs)

C1_Witness ==
    /\ npc = "returned"
    /\ rs = <<<<AttributeName("tags")>>, <<AttributeName("id")>>,
              <<AttributeName("tags")>>>>
    /\ ret = <<<<AttributeName("id")>>, <<AttributeName("tags")>>>>

\* C2: in every response of planResourceChange, on whatever return, the
\* RequiresReplace list is strictly ascending by string rendering (sorted,
\* no two equal paths).
C2_ResponseRequiresReplaceNormalised ==
    pc = "returned" => StrictlyAscending(resp.RequiresReplace)

ScenarioProvider ==
    /\ schema = ScenarioSchema
    /\ req = ScenarioRequest
    /\ attrMods = NoAttributePlanModifiers
    /\ resource = NoModifyPlan

\* C3 as stated: the scenario's response plan is {id:"1", name:"a",
\* tags:unknown} with an empty RequiresReplace.
C3_ScenarioKeepsId ==
    (Completed /\ ScenarioProvider) =>
        /\ resp.PlannedState = NewDynamicValue(ObjectValue(
              [id |-> StringValue("1"), name |-> StringValue("a"),
               tags |-> UnknownValue("List")]))
        /\ resp.RequiresReplace = <<>>

\* C3, amended: the scenario's response plan is {id:unknown, name:"a",
\* tags:unknown} with an empty RequiresReplace: id is computed and null in
\* the config, so it is marked unknown like tags.
C3_ScenarioMarksIdAndTags ==
    (Completed /\ ScenarioProvider) =>
        /\ resp.PlannedState = NewDynamicValue(ObjectValue(
              [id |-> UnknownValue("String"), name |-> StringValue("a"),
               tags |-> UnknownValue("List")]))
        /\ resp.RequiresReplace = <<>>

C3_Witness ==
    /\ Completed
    /\ ScenarioProvider
    /\ trace = <<"NewResource", "MarkUnknown", "AttributePlanModifiers">>
    /\ Unmarshal(resp.PlannedState).v.id = UnknownValue("String")

\* C4: on a request with a non-null plan the attribute-level modifiers run
\* twice: once before the mark-unknown pass and once after it.
C4_TwoAttributePasses ==
    (Completed /\ ~IsNull(Proposed)) =>
        \E i \in 1..Len(trace) : \E j \in 1..Len(trace) :
            /\ i < j
            /\ trace[i] = "AttributePlanModifiers"
            /\ trace[j] = "AttributePlanModifiers"
            /\ \A k \in 1..Len(trace) :
                  trace[k] = "MarkUnknown" => (i < k /\ k < j)

\* The positions of the proposed plan, of depth >= 1, that cannot be
\* looked up in the config and are still in the plan after the pass.
FailedLookups ==
    {q \in Positions(Proposed) :
        /\ Len(q) >= 1
        /\ ~Exists(config, q)
        /\ Exists(plan, q)}

\* C5 as stated: after the mark-unknown pass every position whose config
\* lookup fails holds the value it held in the proposed plan.
C5_FailedLookupLeavesUnchanged ==
    AfterMarkUnknown =>
        \A q \in FailedLookups : ValueAt(plan, q) = ValueAt(Proposed, q)

\* C5, amended: a failed config lookup raises no error and leaves the
\* decision to the schema: the position is unchanged when its path lies
\* inside an atomic attribute or resolves to an attribute that is not
\* computed, and is replaced by unknown when it resolves to a computed one.
C5_FailedLookupDefersToSchema ==
    /\ AfterMarkUnknown =>
          \A q \in FailedLookups :
              ValueAt(plan, q) =
                  IF /\ AttributeAtPath(schema, q).err = ""
                     /\ AttributeAtPath(schema, q).attribute.Computed
                  THEN UnknownValue(ValueAt(Proposed, q).t)
                  ELSE ValueAt(Proposed, q)
    /\ (pc = "MarkUnknown" /\ MarkUnknownRuns(plan, state)) =>
          \A q \in Positions(plan) :
              (Len(q) >= 1 /\ ~Exists(config, q)) =>
                  ~markComputedNilsAsUnknown(config, schema, q,
                                             ValueAt(plan, q)).err

C5_Witness ==
    /\ AfterMarkUnknown
    /\ <<AttributeName("obj"), AttributeName("c")>> \in FailedLookups
    /\ Proposed.v.obj.v.c = StringValue("v")
    /\ plan.v.obj.v.c = UnknownValue("String")

\* C6: a response that carries an error diagnostic carries no plan a pass
\* has produced: its planned value is absent or the proposed new state.
C6_NoProducedPlanWithError ==
    (pc = "returned" /\ HasError(resp.Diagnostics)) =>
        resp.PlannedState \in {NilDynamicValue, req.ProposedNewState}

\* An error diagnostic raised before the resource-level ModifyPlan call.
AbortedBeforeModifyPlan ==
    \E i \in 1..Len(resp.Diagnostics) :
        /\ resp.Diagnostics[i].severity = "error"
        /\ resp.Diagnostics[i].summary
              \notin {"ModifyPlan", "Error converting response"}

\* C7 as stated: a resource that implements ModifyPlan has had it invoked
\* exactly once when the request returns.
C7_ModifyPlanOncePerRequest ==
    (pc = "returned" /\ Ran("NewResource") /\ resource.ModifyPlan) =>
        Count(trace, "ModifyPlan") = 1

\* C7, amended: ModifyPlan is never invoked more than once, never for a
\* resource that does not implement it, and exactly once on every request
\* that no earlier step aborted, whether or not the proposed plan is null.
C7_ModifyPlanOnceUnlessAborted ==
    /\ Count(trace, "ModifyPlan") <= 1
    /\ ~resource.ModifyPlan => ~Ran("ModifyPlan")
    /\ (pc = "returned" /\ resource.ModifyPlan) =>
          (Ran("ModifyPlan") <=> ~AbortedBeforeModifyPlan)

C7_Witness ==
    /\ pc = "returned"
    /\ IsNull(Proposed)
    /\ Count(trace, "ModifyPlan") = 1

\* C8: when the proposed plan is null neither the mark-unknown pass nor the
\* attribute-level pass runs and the response plan is null.
C8_NullPlanStaysNull ==
    (Completed /\ IsNull(Proposed)) =>
        /\ ~Ran("MarkUnknown")
        /\ ~Ran("AttributePlanModifiers")
        /\ IsNull(Unmarshal(resp.PlannedState))

\* C9: the mark-unknown pass runs if and only if the plan is non-null and
\* differs from the prior state; when it does not run the plan is the
\* proposed plan, with no position replaced by unknown.
C9_MarkUnknownIffPlanDiffers ==
    pc = "AttributePlanModifiers" =>
        IF Proposed.k # "null" /\ Proposed # Prior
        THEN Ran("MarkUnknown")
        ELSE ~Ran("MarkUnknown") /\ plan = Proposed

C9_Witness ==
    /\ pc = "AttributePlanModifiers"
    /\ Proposed.k = "known"
    /\ Proposed = Prior
    /\ plan = Proposed
    /\ \E n \in DOMAIN schema :
          schema[n].Computed /\ IsNull(config.v[n]) /\ plan.v[n].k = "known"

\* The schema of the unknown-marking scenario: one optional attribute that
\* is not computed (name) and one computed attribute (id).
MarkingScenarioSchema ==
    [id   |-> StringAttribute(ComputedOnly),
     name |-> StringAttribute(OptionalOnly)]

\* C10: in that schema, with the optional attribute set in the config and
\* the plan different from the prior state, the pass leaves the optional
\* attribute unchanged, makes the computed attribute unknown when it is
\* null in the config and leaves it as proposed when it is not.
C10_MarkingScenario ==
    (AfterMarkUnknown /\ schema = MarkingScenarioSchema
        /\ config.v.name = StringValue("a")) =>
        /\ plan.v.name = Proposed.v.name
        /\ IsNull(config.v.id) => plan.v.id = UnknownValue("String")
        /\ ~IsNull(config.v.id) => plan.v.id = Proposed.v.id

C10_Witness ==
    /\ AfterMarkUnknown
    /\ schema = MarkingScenarioSchema
    /\ config.v.name = StringValue("a")
    /\ IsNull(config.v.id)
    /\ Proposed.v.id = StringValue("1")
    /\ plan.v.id = UnknownValue("String")
    /\ plan.v.name = StringValue("a")

\* The paths the modification passes that ran have appended, in call order.
AppendedPaths ==
    (IF Ran("AttributePlanModifiers") THEN attrMods.rr ELSE <<>>)
    \o (IF Ran("ModifyPlan") THEN resource.rr ELSE <<>>)

\* C11: on a request that completes, the response RequiresReplace is the
\* normalisation of the paths appended by the attribute-level pass followed
\* by those of the resource-level ModifyPlan: strictly ascending, with
\* exactly the appended paths; name, id appended by the attribute-level
\* pass and id, tags by ModifyPlan give exactly [id, name, tags].
C11_RequiresReplaceIsNormalisedConcatenation ==
    Completed =>
        /\ StrictlyAscending(resp.RequiresReplace)
        /\ Elems(resp.RequiresReplace) = Elems(AppendedPaths)
        /\ AppendedPaths = <<<<AttributeName("name")>>, <<AttributeName("id")>>,
                             <<AttributeName("id")>>, <<AttributeName("tags")>>>>
              => resp.RequiresReplace =
                    <<<<AttributeName("id")>>, <<AttributeName("name")>>,
                      <<AttributeName("tags")>>>>

C11_Witness ==
    /\ Completed
    /\ attrMods.rr = <<<<AttributeName("name")>>, <<AttributeName("id")>>>>
    /\ resource.rr = <<<<AttributeName("id")>>, <<AttributeName("tags")>>>>
    /\ Ran("AttributePlanModifiers")
    /\ Ran("ModifyPlan")
    /\ resp.RequiresReplace =
          <<<<AttributeName("id")>>, <<AttributeName("name")>>,
            <<AttributeName("tags")>>>>

\* C12: normalisation is idempotent: normaliseRequiresReplace applied to
\* its own result returns that result.
C12_NormaliseIdempotent ==
    npc = "returned again" => (rs = first.ret /\ ret = first.ret)

C12_Witness ==
    /\ npc = "returned again"
    /\ first.rs = <<<<AttributeName("tags")>>, <<AttributeName("id")>>,
                    <<AttributeName("tags")>>>>
    /\ ret = <<<<AttributeName("id")>>, <<AttributeName("tags")>>>>

\* C13: normalisation does not depend on the order of its argument: for
\* every permutation of a path list it returns what it returns for the list.
C13_NormalisePermutationInvariant ==
    npc = "returned shuffled" => ret = first.ret

C13_Witness ==
    /\ npc = "returned shuffled"
    /\ first.rs = <<<<AttributeName("tags")>>, <<AttributeName("id")>>,
                    <<AttributeName("name")>>>>
    /\ rs = <<<<AttributeName("name")>>, <<AttributeName("tags")>>,
              <<AttributeName("id")>>>>
    /\ ret = <<<<AttributeName("id")>>, <<AttributeName("name")>>,
               <<AttributeName("tags")>>>>

ParseErrors ==
    {"Error parsing configuration", "Error parsing plan",
     "Error parsing prior state"}

\* C14: a failure to unmarshal the config, the plan or the prior state, or
\* to convert the final plan, adds exactly one error diagnostic and ends
\* the request: the unmarshalling step either leaves the diagnostics alone
\* and goes on, or appends one parse error and returns before the resource
\* is created or any pass has run; the conversion step appends at most one
\* conversion error and returns; nothing runs after the return.
C14_ParseOrConvertFailureAborts ==
    [][/\ (pc = "Unmarshal" /\ pc' = "returned") =>
            /\ \E e \in ParseErrors :
                  resp'.Diagnostics =
                      Append(resp.Diagnostics, ErrorDiagnostic(e))
            /\ trace' = <<>>
            /\ resp'.PlannedState = NilDynamicValue
       /\ (pc = "Unmarshal" /\ pc' # "returned") =>
            /\ resp'.Diagnostics = resp.Diagnostics
            /\ pc' = "NewResource"
       /\ pc = "Convert" =>
            /\ pc' = "returned"
            /\ trace' = trace
            /\ \/ resp'.Diagnostics = resp.Diagnostics
               \/ resp'.Diagnostics =
                      Append(resp.Diagnostics,
                             ErrorDiagnostic("Error converting response"))
       /\ pc = "returned" => UNCHANGED reqVars]_vars

C14_Witness ==
    /\ pc = "returned"
    /\ trace = <<>>
    /\ Len(resp.Diagnostics) = 2
    /\ resp.Diagnostics[1].severity = "warning"
    /\ resp.Diagnostics[2] = ErrorDiagnostic("Error parsing plan")

\* A diagnostic of the attribute-level pass, of the given severity.
AttributePassDiag(severity) ==
    \E i \in 1..Len(resp.Diagnostics) :
        resp.Diagnostics[i] =
            [severity |-> severity, summary |-> "AttributePlanModifier"]

\* An error of the provider_meta lookup or parsing.
ProviderMetaFailed ==
    \E i \in 1..Len(resp.Diagnostics) :
        /\ resp.Diagnostics[i].severity = "error"
        /\ resp.Diagnostics[i].summary
              \in {"ProviderMetaSchema", "Error parsing provider_meta"}

\* C15: an error of the attribute-level pass ends the request there, with
\* ModifyPlan never invoked; a warning of the pass does not: the request
\* goes on to the resource-level step with the warning in the response,
\* ModifyPlan is invoked if the resource implements it (and its own
\* provider_meta lookup does not fail), and a completed request carries
\* the final plan together with the warning.
C15_OnlyErrorsAbortAttributePass ==
    /\ AttributePassDiag("error") =>
          /\ pc = "returned"
          /\ ~Ran("ModifyPlan")
          /\ trace[Len(trace)] = "AttributePlanModifiers"
    /\ (attrMods.diag = "warning" /\ Ran("AttributePlanModifiers")) =>
          /\ AttributePassDiag("warning")
          /\ pc \in {"ModifyPlan", "Convert", "returned"}
          /\ (pc = "returned" /\ resource.ModifyPlan /\ ~ProviderMetaFailed)
                => Ran("ModifyPlan")
          /\ Completed => resp.PlannedState = NewDynamicValue(plan)

C15_Witness ==
    /\ Completed
    /\ AttributePassDiag("warning")
    /\ Ran("ModifyPlan")
    /\ resp.PlannedState = NewDynamicValue(plan)

\* The cancel func of the goroutine has been appended to the registry.
Registered(h) ==
    IF h = "PlanResourceChange" THEN pc # "PlanResourceChange"
    ELSE rpc[h] \in {"register appended", "handling", "returned"}

InRegistry(h) == \E i \in 1..Len(contextCancels) : contextCancels[i] = h

\* C16: cancel-all is atomic and at most once: when a sweep has run every
\* cancel func registered so far has been invoked, when the slice has been
\* reset the registry is empty, and no cancel func is ever invoked more
\* than once or held twice by the registry.
C16_CancelAllAtomicAtMostOnce ==
    /\ \A h \in Handles :
          /\ cancelCalls[h] <= 1
          /\ Count(contextCancels, h) <= 1
    /\ \A g \in Stoppers :
          /\ rpc[g] \in {"cancel swept", "cancel cleared"} =>
                \A h \in Handles : Registered(h) => cancelCalls[h] = 1
          /\ rpc[g] = "cancel cleared" => contextCancels = <<>>

C16_Witness ==
    /\ \A g \in Stoppers : rpc[g] = "returned"
    /\ \A h \in Handles : cancelCalls[h] = 1
    /\ contextCancels = <<>>

\* A goroutine between Lock and Unlock.
InCriticalSection(g) ==
    rpc[g] \in {"register locked", "register appended", "cancel locked",
                "cancel swept", "cancel cleared"}

\* C17: registration and the sweep exclude each other: at most one
\* goroutine is between Lock and Unlock, and it holds the mutex; so every
\* cancel func registered so far has been invoked or is still in the
\* registry, in every interleaving.
C17_NoHandleSkipped ==
    /\ \A g \in Callers \cup Stoppers :
          InCriticalSection(g) <=> contextCancelsMu = g
    /\ \A h \in Handles :
          Registered(h) => (cancelCalls[h] >= 1 \/ InRegistry(h))

C17_Witness ==
    /\ \E g \in Stoppers : rpc[g] = "returned"
    /\ cancelCalls["PlanResourceChange"] = 1
    /\ ~InRegistry("PlanResourceChange")
    /\ cancelCalls["rpc1"] = 0
    /\ InRegistry("rpc1")
    /\ contextCancelsMu = ""

\* The plan the passes produce from the request when nothing fails.
ReconciledPlan ==
    LET marked ==
            IF MarkUnknownRuns(Proposed, Prior)
            THEN Transform(Unmarshal(req.Config), schema, Proposed).val
            ELSE Proposed
        modified ==
            IF AttributePassRuns(marked)
            THEN SchemaModifyPlan(schema, attrMods, marked, <<>>).Plan
            ELSE marked
    IN  IF ResourceWithModifyPlan(resource)
        THEN ResourceModifyPlan(schema, resource, modified, <<>>).Plan
        ELSE modified

\* C18: a request that has started returns, whatever StopProvider calls
\* are interleaved with it: no step of another goroutine changes the
\* request's state, and a completed request carries the plan and the
\* replacement paths its inputs determine, cancelled or not.
C18_ReconciliationRunsToCompletion ==
    /\ <>(pc = "returned")
    /\ [][rpc' # rpc => UNCHANGED reqVars]_vars
    /\ [](Completed =>
            /\ resp.PlannedState = NewDynamicValue(ReconciledPlan)
            /\ resp.RequiresReplace \in normaliseRequiresReplace(AppendedPaths))

C18_Witness ==
    /\ pc = "Convert"
    /\ cancelCalls["PlanResourceChange"] = 1
    /\ \A g \in Stoppers : rpc[g] = "returned"
    /\ Ran("MarkUnknown")
    /\ Ran("ModifyPlan")
    /\ plan = ReconciledPlan

\* The cases of the test table that make the call.
MatchingTestCases ==
    {n \in DOMAIN ApplyStepTestCases :
        /\ ApplyStepTestCases[n].attribute = call.attribute
        /\ ApplyStepTestCases[n].step = call.step}

\* C19: applying a step to a string attribute fails for every step kind:
\* the result is nil and the error names the step's kind and the
\* attribute's type, as the test table expects for its four cases.
C19_StringAttributeAcceptsNoStep ==
    (call.op = "ApplyTerraform5AttributePathStep" /\ got.returned) =>
        /\ got.result = "nil"
        /\ Len(got.err) = 4
        /\ got.err[1] = "cannot apply AttributePathStep "
        /\ got.err[2] = "tftypes." \o call.step.kind
        /\ got.err[4] = (IF call.attribute.CustomType = ""
                         THEN "basetypes.StringType"
                         ELSE call.attribute.CustomType)
        /\ \A n \in MatchingTestCases :
              /\ got.result = ApplyStepTestCases[n].expected
              /\ got.err = ApplyStepTestCases[n].expectedError

C19_Witness ==
    /\ call.op = "ApplyTerraform5AttributePathStep"
    /\ got.returned
    /\ call.step = ElementKeyInt(1)
    /\ MatchingTestCases = {"ElementKeyInt"}
    /\ got.err = <<"cannot apply AttributePathStep ", "tftypes.ElementKeyInt",
                   " to ", "basetypes.StringType">>

\* The text holds the piece sequence part.
Contains(text, part) ==
    \E i \in 0..(Len(text) - Len(part)) :
        SubSeq(text, i + 1, i + Len(part)) = part

DiagCalled ==
    /\ call.op \in {"AttributeMissingAttributeTypesDiag",
                    "AttributeMissingElementTypeDiag"}
    /\ got.returned

\* C20 as stated: each function returns one error diagnostic without a
\* path whose detail contains the rendered path.
C20_DetailContainsRenderedPath ==
    DiagCalled =>
        /\ got.diag.severity = "error"
        /\ ~got.diag.withPath
        /\ Contains(got.diag.detail, PathString(call.path))

\* C20, amended: each function returns one error diagnostic without a path
\* whose detail contains the rendered path as %q formats it: in double
\* quotes, with every double quote and backslash of the rendering escaped;
\* the rendering itself is in the detail when it has neither.
C20_DetailContainsQuotedPath ==
    DiagCalled =>
        /\ got.diag.severity = "error"
        /\ ~got.diag.withPath
        /\ Contains(got.diag.detail, Quote(PathString(call.path)))
        /\ (\A i \in 1..Len(PathString(call.path)) :
                PathString(call.path)[i] \notin {"\"", "\\"})
              => Contains(got.diag.detail, PathString(call.path))

C20_Witness ==
    /\ DiagCalled
    /\ call.op = "AttributeMissingAttributeTypesDiag"
    /\ call.path = <<PathStepAttributeName("test"),
                     PathStepElementKeyString("key"),
                     PathStepAttributeName("nested")>>
    /\ Contains(got.diag.detail,
                <<"\"", "test", "[", "\\", "\"", "key", "\\", "\"", "]",
                  ".", "nested", "\"">>)

\* The passes of planResourceChange in the order of the code.
PassOrder ==
    <<"NewResource", "MarkUnknown", "AttributePlanModifiers", "ModifyPlan">>
PassIndex(pass) == CHOOSE i \in 1..Len(PassOrder) : PassOrder[i] = pass

\* The plan after the mark-unknown pass of this request.
MarkedPlan ==
    IF MarkUnknownRuns(Proposed, Prior)
    THEN Transform(Unmarshal(req.Config), schema, Proposed).val
    ELSE Proposed

\* The plan the attribute-level pass of this request hands on.
AttributePassOutput ==
    IF AttributePassRuns(MarkedPlan)
    THEN [MarkedPlan EXCEPT !.v =
            [n \in DOMAIN MarkedPlan.v |->
                IF n = attrMods.rewrite THEN ModifiedValue(schema[n])
                ELSE MarkedPlan.v[n]]]
    ELSE MarkedPlan

\* C22: the passes run in the fixed order mark-unknown, attribute-level
\* modification, resource-level ModifyPlan, each at most once; ModifyPlan
\* is invoked only once the attribute-level pass of a non-null plan has
\* returned, it is handed the plan that pass produced, and no pass runs
\* after it.
C22_PassesInFixedOrder ==
    /\ [](\A i, j \in 1..Len(trace) :
             i < j => PassIndex(trace[i]) < PassIndex(trace[j]))
    /\ []((Ran("ModifyPlan") /\ ~IsNull(Proposed)) =>
             Ran("AttributePlanModifiers"))
    /\ [](pc = "ModifyPlan" => plan = AttributePassOutput)
    /\ [][(trace' # trace /\ trace'[Len(trace')] = "ModifyPlan") =>
             /\ pc = "ModifyPlan"
             /\ resource.rewrite = "none" => plan' = plan]_vars
    /\ [][Ran("ModifyPlan") => trace' = trace]_vars

C22_Witness ==
    /\ Completed
    /\ trace = PassOrder
    /\ attrMods.rewrite = "id"
    /\ resource.rewrite = "none"
    /\ MarkedPlan # Proposed
    /\ plan = AttributePassOutput
    /\ plan # MarkedPlan

\* The plan the last modifier of this request hands on: what ModifyPlan
\* wrote if the resource implements it, else the attribute-level pass's
\* plan.
LastModifierOutput ==
    IF resource.ModifyPlan /\ resource.rewrite = "replace"
    THEN ObjectValue([n \in DOMAIN schema |-> ModifiedValue(schema[n])])
    ELSE IF resource.ModifyPlan /\ resource.rewrite = "remove"
    THEN NullValue("Object")
    ELSE AttributePassOutput

\* The attribute the attribute-level pass rewrites is one the mark-unknown
\* pass set to unknown.
ModifierOverwritesUnknown ==
    /\ attrMods.rewrite # "none"
    /\ ~IsNull(Proposed)
    /\ MarkUnknownRuns(Proposed, Prior)
    /\ MarkedPlan.v[attrMods.rewrite].k = "unknown"

\* C23: a known value an attribute plan modifier writes over a position
\* the mark-unknown pass set to unknown is the value of the response plan
\* unless the resource-level ModifyPlan rewrites it, and the plan of a
\* completed request is the plan the last modifier that ran handed on.
C23_ModifierValueTakesPriority ==
    /\ (Completed /\ ModifierOverwritesUnknown
        /\ (resource.ModifyPlan => resource.rewrite = "none")) =>
          /\ Unmarshal(resp.PlannedState).v[attrMods.rewrite]
                = ModifiedValue(schema[attrMods.rewrite])
          /\ Unmarshal(resp.PlannedState).v[attrMods.rewrite].k = "known"
    /\ Completed => Unmarshal(resp.PlannedState) = LastModifierOutput

C23_Witness ==
    /\ Completed
    /\ ModifierOverwritesUnknown
    /\ attrMods.rewrite = "id"
    /\ ~resource.ModifyPlan
    /\ Proposed.v.id = StringValue("1")
    /\ MarkedPlan.v.id = UnknownValue("String")
    /\ Unmarshal(resp.PlannedState).v.id = StringValue("m")


\* The positions of depth >= 1 of the proposed plan that are still in the
\* plan after the mark-unknown pass.
MarkedPositions ==
    {q \in Positions(Proposed) : Len(q) >= 1 /\ Exists(plan, q)}

\* The callback returned another value for the position than it was
\* handed: the position is no longer known / null as it was.  (The
\* children of a list or object are positions of their own.)
ReplacedAt(q) == ValueAt(plan, q).k # ValueAt(Proposed, q).k

\* The callback returned the position as it was.
UnchangedAt(q) ==
    /\ ~ReplacedAt(q)
    /\ \/ /\ ValueAt(Proposed, q).k = "known"
          /\ ValueAt(Proposed, q).t \in {"List", "Object"}
       \/ ValueAt(plan, q) = ValueAt(Proposed, q)

ConfigNullAt(q) == Exists(config, q) /\ IsNull(ValueAt(config, q))
ConfigNonNullAt(q) == Exists(config, q) /\ ~IsNull(ValueAt(config, q))
ComputedAt(q) ==
    /\ AttributeAtPath(schema, q).err = ""
    /\ AttributeAtPath(schema, q).attribute.Computed

\* C24 as stated: the mark-unknown pass replaces a position only when its
\* depth is >= 1, the config value at its path is null and its attribute
\* is computed, and then by the unknown value of the position's type; the
\* root and every other position are unchanged.
C24_MarksOnlyNullConfig ==
    AfterMarkUnknown =>
        /\ plan.k = Proposed.k
        /\ \A q \in MarkedPositions :
              IF ConfigNullAt(q) /\ ComputedAt(q)
              THEN ValueAt(plan, q) = UnknownValue(ValueAt(Proposed, q).t)
              ELSE UnchangedAt(q)

\* C24, amended: the config value counts as null also when the path cannot
\* be looked up in the config (a step of it does not apply, as under a
\* null object); a position whose config value is non-null, or whose path
\* resolves to no computed attribute, is unchanged, and so is the root.
C24_MarksNullOrMissingConfig ==
    AfterMarkUnknown =>
        /\ plan.k = Proposed.k
        /\ \A q \in MarkedPositions :
              IF ~ConfigNonNullAt(q) /\ ComputedAt(q)
              THEN ValueAt(plan, q) = UnknownValue(ValueAt(Proposed, q).t)
              ELSE UnchangedAt(q)

C24_Witness ==
    /\ AfterMarkUnknown
    /\ schema \in SchemasB
    /\ schema.tags.Computed
    /\ IsNull(config.v.tags)
    /\ Proposed.v.tags = ListValue(<<StringValue("x")>>)
    /\ plan.v.tags = UnknownValue("List")
    /\ plan.v.id = UnknownValue("String")
    /\ plan.v.name = Proposed.v.name

\* The positions of the proposed plan for which the callback asks the
\* schema: depth >= 1 and no non-null config value.
ResolvedPositions ==
    {q \in Positions(Proposed) :
        /\ Len(q) >= 1
        /\ ~(Exists(Unmarshal(req.Config), q)
             /\ ~IsNull(ValueAt(Unmarshal(req.Config), q)))}

\* Resolving a position in the schema fails, and not because the position
\* lies inside an atomic attribute.
ResolutionFails ==
    \E q \in ResolvedPositions :
        AttributeAtPath(schema, q).err
            \notin {"", "ErrPathInsideAtomicAttribute"}

InsideAtomicAttribute(q) ==
    AttributeAtPath(schema, q).err = "ErrPathInsideAtomicAttribute"

\* C25: a position the schema resolves to the inside of an atomic
\* attribute is left unchanged by the mark-unknown pass and raises no
\* error; when the resolution of a position fails for another reason the
\* pass fails: the step adds exactly one "Error modifying plan" error and
\* returns, and neither the attribute-level pass nor ModifyPlan runs.
C25_SchemaResolutionFailures ==
    /\ []((pc = "MarkUnknown" /\ MarkUnknownRuns(plan, state)) =>
            \A q \in ResolvedPositions :
                InsideAtomicAttribute(q) =>
                    markComputedNilsAsUnknown(config, schema, q,
                                              ValueAt(plan, q))
                        = [val |-> ValueAt(plan, q), err |-> FALSE])
    /\ [](AfterMarkUnknown =>
            /\ ~ResolutionFails
            /\ \A q \in MarkedPositions :
                  InsideAtomicAttribute(q) =>
                      ValueAt(plan, q) = ValueAt(Proposed, q))
    /\ [][(pc = "MarkUnknown" /\ MarkUnknownRuns(plan, state)
           /\ ResolutionFails) =>
             /\ resp'.Diagnostics =
                   Append(resp.Diagnostics,
                          ErrorDiagnostic("Error modifying plan"))
             /\ pc' = "returned"]_vars
    /\ []((Ran("MarkUnknown") /\ ResolutionFails) =>
            /\ pc = "returned"
            /\ Count(resp.Diagnostics,
                     ErrorDiagnostic("Error modifying plan")) = 1
            /\ ~Ran("AttributePlanModifiers")
            /\ ~Ran("ModifyPlan"))

C25_Witness ==
    /\ pc = "returned"
    /\ schema = SchemaD
    /\ resource.ModifyPlan
    /\ trace = <<"NewResource", "MarkUnknown">>
    /\ IsNull(config.v.blk)
    /\ <<AttributeName("blk")>> \in ResolvedPositions
    /\ AttributeAtPath(schema, <<AttributeName("blk")>>).err
          = "ErrUnexpectedType"
    /\ resp.Diagnostics = <<ErrorDiagnostic("Error modifying plan")>>

\* The response RequiresReplace holds a path equal to p.
InResponse(p) ==
    \E j \in 1..Len(resp.RequiresReplace) :
        PathEqual(resp.RequiresReplace[j], p)

\* C26: the resource-level ModifyPlan cannot remove a replacement path of
\* the attribute-level pass: its step leaves resp.RequiresReplace as it
\* is, what it returns is only what the resource appended to the empty
\* list it was handed, and on a completed request every path the
\* attribute-level pass appended is in the response RequiresReplace.
C26_ModifyPlanCannotRemovePaths ==
    /\ [][pc = "ModifyPlan" =>
            resp'.RequiresReplace = resp.RequiresReplace]_vars
    /\ [][(trace' # trace /\ trace'[Len(trace')] = "ModifyPlan") =>
            modifyPlanResp' = resource.rr]_vars
    /\ []((Completed /\ Ran("AttributePlanModifiers")) =>
            \A i \in 1..Len(attrMods.rr) : InResponse(attrMods.rr[i]))

C26_Witness ==
    /\ Completed
    /\ Ran("AttributePlanModifiers")
    /\ Ran("ModifyPlan")
    /\ attrMods.rr = <<<<AttributeName("name")>>>>
    /\ resource.rr = <<<<AttributeName("id")>>, <<AttributeName("tags")>>>>
    /\ resp.RequiresReplace =
          <<<<AttributeName("id")>>, <<AttributeName("name")>>,
            <<AttributeName("tags")>>>>

\* The summary of the last diagnostic if it is an error, else "".
LastError ==
    IF resp.Diagnostics # <<>>
       /\ resp.Diagnostics[Len(resp.Diagnostics)].severity = "error"
    THEN resp.Diagnostics[Len(resp.Diagnostics)].summary
    ELSE ""

\* The errors planResourceChange returns on before and after line 344.
AbortsBeforeParsed ==
    {"ResourceType", "GetSchema", "Error parsing configuration",
     "Error parsing plan", "Error parsing prior state"}
AbortsAfterParsed ==
    {"NewResource", "Error modifying plan", "ProviderMetaSchema",
     "Error parsing provider_meta", "AttributePlanModifier",
     "Error converting response"}

\* C27: a request that aborts before the three values are parsed returns
\* no planned value; one that aborts afterwards returns the request's
\* proposed new state as it came; the planned value is set only by the
\* assignment after parsing and by the successful final conversion, so it
\* differs from the proposed new state only after that conversion.
C27_AbortKeepsProposedState ==
    /\ []((pc = "returned" /\ LastError \in AbortsBeforeParsed) =>
            resp.PlannedState = NilDynamicValue)
    /\ []((pc = "returned" /\ LastError \in AbortsAfterParsed) =>
            resp.PlannedState = req.ProposedNewState)
    /\ [](resp.PlannedState \notin {NilDynamicValue, req.ProposedNewState} =>
            /\ pc = "returned"
            /\ Count(resp.Diagnostics,
                     ErrorDiagnostic("Error converting response")) = 0
            /\ resp.PlannedState = NewDynamicValue(plan))
    /\ [][resp'.PlannedState # resp.PlannedState =>
            \/ /\ pc = "Unmarshal"
               /\ pc' = "NewResource"
               /\ resp'.PlannedState = req.ProposedNewState
            \/ /\ pc = "Convert"
               /\ resp'.Diagnostics = resp.Diagnostics
               /\ resp'.PlannedState = NewDynamicValue(plan)]_vars

C27_Witness ==
    /\ pc = "returned"
    /\ LastError = "Error converting response"
    /\ Ran("MarkUnknown")
    /\ Ran("AttributePlanModifiers")
    /\ Ran("ModifyPlan")
    /\ plan # Proposed
    /\ resp.PlannedState = req.ProposedNewState

\* The handler that registered the handle has returned its response.
Returned(h) ==
    IF h = "PlanResourceChange" THEN pc = "returned"
    ELSE rpc[h] = "returned"

\* C28: the registry holds one handle per in-flight request: no handle is
\* held twice, and a handle in the registry belongs to a request that has
\* not returned yet.
C28_RegistryHoldsOnlyInFlight ==
    \A h \in Handles :
        /\ Count(contextCancels, h) <= 1
        /\ InRegistry(h) => ~Returned(h)

\* C29: the registry lock never deadlocks: under fair scheduling every
\* call of registerContext and of cancelRegisteredContexts returns,
\* whatever calls run beside it; a goroutine that has returned from either
\* does not hold the mutex, and in the end nobody holds it.
C29_RegistryCallsReturn ==
    /\ \A g \in Callers : (rpc[g] = "idle") ~> (rpc[g] = "handling")
    /\ \A g \in Stoppers : (rpc[g] = "idle") ~> (rpc[g] = "returned")
    /\ (pc = "PlanResourceChange") ~> (pc = "ResourceType")
    /\ [](\A g \in Callers \cup Stoppers :
             rpc[g] \in {"handling", "returned"} => contextCancelsMu # g)
    /\ [](pc # "PlanResourceChange" =>
             contextCancelsMu # "PlanResourceChange")
    /\ <>[](contextCancelsMu = "")

C29_Witness ==
    /\ \A g \in Callers \cup Stoppers : rpc[g] = "returned"
    /\ pc = "returned"
    /\ \A h \in Handles : Registered(h)
    /\ contextCancelsMu = ""

\* C21: GetType of a string attribute is its custom type when one is set
\* and the base string type otherwise; Equal is false for an attribute of
\* another variant, whatever its fields, and true for a string attribute
\* with the same fields; both as the tests' tables expect.
C21_GetTypeAndEqual ==
    /\ (call.op = "GetType" /\ got.returned) =>
          /\ call.attribute.CustomType # "" =>
                got.result = call.attribute.CustomType
          /\ call.attribute.CustomType = "" =>
                got.result = "basetypes.StringType"
          /\ \A n \in DOMAIN GetTypeTestCases :
                GetTypeTestCases[n].attribute = call.attribute =>
                    got.result = GetTypeTestCases[n].expected
    /\ (call.op = "Equal" /\ got.returned) =>
          /\ call.other.variant # "metaschema.StringAttribute" =>
                got.result = "false"
          /\ (/\ call.other.variant = "metaschema.StringAttribute"
              /\ call.other.fields.CustomType = call.attribute.CustomType
              /\ call.other.fields.Description = call.attribute.Description)
                => got.result = "true"
          /\ \A n \in DOMAIN EqualTestCases :
                (/\ EqualTestCases[n].attribute = call.attribute
                 /\ EqualTestCases[n].other = call.other) =>
                    got.result = FormatBool(EqualTestCases[n].expected)

C21_Witness ==
    /\ call.op = "Equal"
    /\ got.returned
    /\ call.attribute = EqualTestCases["different-type"].attribute
    /\ call.other = EqualTestCases["different-type"].other
    /\ call.other.fields = call.attribute
    /\ got.result = "false"
=============================================================================
